---- MODULE Spec2Model ----
(***************************************************************************)
(* plyer notification facade and its Android adapter.                      *)
(*                                                                         *)
(*   src/plyer/facades/notification.py            Notification             *)
(*   src/plyer/platforms/android/notification.py  AndroidNotification      *)
(*   src/plyer/platforms/android/__init__.py      SDK_INT, activity        *)
(*                                                                         *)
(* One caller thread walks through notify -> _notify -> the native calls,  *)
(* one native call group per step; the Android UI thread runs the posted   *)
(* toast runnables.  Text is a sequence of code points, encoded to UTF-8   *)
(* bytes by str.encode and decoded again by java.lang.String(byte[]).      *)
(* Every native call that can throw is a nondeterministic choice between   *)
(* its effect and an exception.                                            *)
(***************************************************************************)
EXTENDS Integers, Sequences, FiniteSets, TLC

VARIABLES
    impl,         \* class of the instance: "facade" (Notification) or "android"
    SDK_INT,      \* android.os.Build.VERSION.SDK_INT
    pc,           \* position of the caller thread
    calls,        \* number of notify calls started so far
    args,         \* the keyword arguments the caller passed to notify
    kwargs,       \* the keyword bundle received by _notify
    forwards,     \* number of _notify invocations made by the current call
    message,      \* _notify local: message bytes
    ticker,       \* _notify local: ticker bytes
    title,        \* _notify local: title as java.lang.String
    icon,         \* _notify local: app_icon
    noti,         \* _notify local: the Notification.Builder
    trace,        \* native calls made by the current call, in order
    outcome,      \* "none", "returned" or "raised"
    error,        \* exception type seen by the caller
    failed,       \* the step of the current call in which something threw
    _ns,          \* self._ns: 0 is None, k is the handle of the k-th fetch
    fetches,      \* number of getSystemService calls on this instance
    _channel,     \* self._channel
    channels,     \* OS side: ids of the channels that exist
    slots,        \* OS side: slot id -> call whose notification is shown, 0 if none
    replaced,     \* OS side: calls whose notification another one has replaced
    uiQueue,      \* runnables posted to the UI thread (toast message bytes)
    toastShown,   \* OS side: text of the toast last shown
    lastSuccess   \* last call whose non-toast notify returned to the caller

vars == <<impl, SDK_INT, pc, calls, args, kwargs, forwards, message, ticker,
          title, icon, noti, trace, outcome, error, failed, _ns, fetches,
          _channel, channels, slots, replaced, uiQueue, toastShown,
          lastSuccess>>

(***************************************************************************)
(* Bounds.                                                                 *)
(***************************************************************************)
MaxCalls == 2
MaxPassed == 2

(***************************************************************************)
(* Text and its conversions.                                               *)
(***************************************************************************)
Empty == <<>>
Hello == <<104, 233>>          \* "h" and e-acute: one and two UTF-8 bytes
Plyer == <<112>>
Tick == <<8364>>               \* euro sign: three UTF-8 bytes
Surrogate == <<55296>>         \* a lone surrogate, which UTF-8 cannot encode

IsSurrogate(cp) == cp >= 55296 /\ cp <= 57343

\* str.encode('utf-8') raises UnicodeEncodeError on a lone surrogate
CanEncode(s) == \A i \in 1..Len(s) : ~IsSurrogate(s[i])

EncodeCodePoint(cp) ==
    IF cp < 128 THEN <<cp>>
    ELSE IF cp < 2048 THEN <<192 + (cp \div 64), 128 + (cp % 64)>>
    ELSE <<224 + (cp \div 4096), 128 + ((cp \div 64) % 64), 128 + (cp % 64)>>

RECURSIVE Encode(_)
Encode(s) ==
    IF s = <<>> THEN <<>> ELSE EncodeCodePoint(Head(s)) \o Encode(Tail(s))

\* java.lang.String(byte[]) with Android's default charset, UTF-8
RECURSIVE AndroidString(_)
AndroidString(b) ==
    IF b = <<>> THEN <<>>
    ELSE IF b[1] < 128 THEN <<b[1]>> \o AndroidString(SubSeq(b, 2, Len(b)))
    ELSE IF b[1] < 224
         THEN <<(b[1] - 192) * 64 + (b[2] - 128)>>
              \o AndroidString(SubSeq(b, 3, Len(b)))
    ELSE <<(b[1] - 224) * 4096 + (b[2] - 128) * 64 + (b[3] - 128)>>
         \o AndroidString(SubSeq(b, 4, Len(b)))

(***************************************************************************)
(* The facade.                                                             *)
(***************************************************************************)
Fields == {"title", "message", "app_name", "app_icon", "importance",
           "timeout", "ticker", "toast", "chronometer", "only_alert_once",
           "ongoing"}

NoneIcon == "<None>"

\* the defaults of Notification.notify's signature
Defaults ==
    [title |-> Empty, message |-> Empty, app_name |-> "", app_icon |-> "",
     importance |-> "", timeout |-> 10, ticker |-> Empty, toast |-> FALSE,
     chronometer |-> FALSE, only_alert_once |-> FALSE, ongoing |-> FALSE]

\* the values a caller passes for a field it does not leave out
Passable ==
    [title |-> {Plyer}, message |-> {Hello, Surrogate}, app_name |-> {"app"},
     app_icon |-> {NoneIcon, "icon.png"},
     importance |-> {"urgent", "high", "medium", "low", "default"},
     timeout |-> {5}, ticker |-> {Tick}, toast |-> {TRUE},
     chronometer |-> {TRUE}, only_alert_once |-> {TRUE}, ongoing |-> {TRUE}]

Pick(f, passed) == IF f \in passed THEN Passable[f] ELSE {Defaults[f]}

\* binding of notify's parameters: the value passed, or the signature's default
Bind(a) == [f \in Fields |-> IF f \in DOMAIN a THEN a[f] ELSE Defaults[f]]

\* notify with two neighbouring keywords of the call crossed over
ForwardCrossed(a) ==
    LET b == Bind(a)
    IN  [title |-> b.title, message |-> b.message, app_icon |-> b.app_name,
         app_name |-> b.app_icon, importance |-> b.importance,
         timeout |-> b.timeout, ticker |-> b.ticker, toast |-> b.toast,
         chronometer |-> b.chronometer,
         only_alert_once |-> b.only_alert_once, ongoing |-> b.ongoing]

\* the keyword bundle notify hands to self._notify
Forward(a) ==
    LET b == Bind(a)
    IN  [title |-> b.title, message |-> b.message, app_icon |-> b.app_icon,
         app_name |-> b.app_name, importance |-> b.importance,
         timeout |-> b.timeout, ticker |-> b.ticker, toast |-> b.toast,
         chronometer |-> b.chronometer,
         only_alert_once |-> b.only_alert_once, ongoing |-> b.ongoing]

(***************************************************************************)
(* The Android adapter: helpers.                                           *)
(***************************************************************************)
PackageName == "org.test.plyer"

\* self._channel_id, set once in __init__
_channel_id == PackageName

SdkVersions == {15, 25, 26}

\* the version test off by one
ChannelRequiredAbove(sdk) == sdk > 26

\* the branch of _build_notification that creates a channel
ChannelRequired(sdk) == ~(sdk < 26)

\* every importance mapped to the tier of the same name
ChannelImportanceByName(importance) ==
    IF importance = "urgent" THEN "IMPORTANCE_HIGH"
    ELSE IF importance = "high" THEN "IMPORTANCE_HIGH"
    ELSE IF importance = "medium" THEN "IMPORTANCE_DEFAULT"
    ELSE IF importance = "low" THEN "IMPORTANCE_LOW"
    ELSE "IMPORTANCE_DEFAULT"

\* the importance tier chosen by _build_notification_channel
ChannelImportance(importance) ==
    IF importance = "urgent" THEN "IMPORTANCE_HIGH"
    ELSE IF importance = "high" THEN "IMPORTANCE_DEFAULT"
    ELSE IF importance = "medium" THEN "IMPORTANCE_LOW"
    ELSE IF importance = "low" THEN "IMPORTANCE_MIN"
    ELSE "IMPORTANCE_DEFAULT"

\* a service getter that does not look at the cached handle
NeedFetchAlways(handle) == TRUE

\* "if not self._ns" in _get_notification_service
NeedFetch(handle) == handle = 0

\* a toast test that reads a key the bundle does not have
ToastRequestedNever(kw) == FALSE

\* "if kwargs.get('toast')" in _notify
ToastRequested(kw) == kw.toast = TRUE

\* kwargs.get('remove_when_clicked'): notify never forwards such a key
RemoveWhenClicked(kw) ==
    IF "remove_when_clicked" \in DOMAIN kw THEN kw["remove_when_clicked"]
    ELSE FALSE

\* a fresh id for every call
SlotIdPerCall == calls

\* the id under which _open_notification hands the notification to the service
SlotId == 0

SlotIds == 0..(MaxCalls + 1)

\* an except clause that only prints
OnExceptionSwallow == "returned"

\* the outcome of _notify's "except Exception as e: ... raise Exception(e)"
OnException == "raised"

\* a base _notify that does nothing
NotImplementedSilent == "returned"

\* the outcome of Notification._notify's raise NotImplementedError
NotImplemented == "raised"

NoChannel == [id |-> "", name |-> Empty, importance |-> ""]

NoIcon == [kind |-> "none", path |-> ""]
AppIcon == [kind |-> "app", path |-> ""]

\* BitmapFactory.decodeFile: null when there is no such file
DecodeFile(path) == IF path = "" THEN NoIcon ELSE [kind |-> "file", path |-> path]

NoBuilder ==
    [created |-> FALSE, channelId |-> "", title |-> Empty, text |-> Empty,
     ticker |-> Empty, onlyAlertOnce |-> FALSE, ongoing |-> FALSE,
     whenSet |-> FALSE, usesChronometer |-> FALSE, smallIcon |-> NoIcon,
     largeIcon |-> NoIcon, contentIntent |-> FALSE, autoCancel |-> FALSE]

\* Notification.Builder(activity) and Notification.Builder(activity, channel id)
NotificationBuilder(cid) == [NoBuilder EXCEPT !.created = TRUE, !.channelId = cid]

\* AndroidNotification._set_icons(notification, icon)
SetIcons(n, i) ==
    LET small == [n EXCEPT !.smallIcon = AppIcon]
    IN  IF i # NoneIcon THEN [small EXCEPT !.largeIcon = DecodeFile(i)]
        ELSE IF i = "" THEN small
        ELSE [small EXCEPT !.largeIcon = AppIcon]

\* AndroidNotification._set_open_behavior(notification, remove_when_clicked)
SetOpenBehavior(n, remove_when_clicked) ==
    [n EXCEPT !.contentIntent = TRUE,
              !.autoCancel = IF remove_when_clicked THEN TRUE ELSE @]

\* the properties _notify sets on the builder between building and launching;
\* its calls of _set_icons and _set_open_behavior are commented out
SetProperties(n, kw, t, m, k) ==
    LET basic == [n EXCEPT !.title = t, !.text = AndroidString(m),
                           !.ticker = AndroidString(k)]
        once == IF kw.only_alert_once THEN [basic EXCEPT !.onlyAlertOnce = TRUE]
                ELSE basic
        going == IF kw.ongoing THEN [once EXCEPT !.ongoing = TRUE] ELSE once
    IN  IF kw.chronometer
        THEN [going EXCEPT !.whenSet = TRUE, !.usesChronometer = TRUE]
        ELSE going

Event(op, handle, id, slot, text) ==
    [op |-> op, ns |-> handle, id |-> id, slot |-> slot, text |-> text]

\* self._get_notification_service(): the handle returned and the native call made
ServiceHandle == IF NeedFetch(_ns) THEN fetches + 1 ELSE _ns
ServiceFetches == IF NeedFetch(_ns) THEN fetches + 1 ELSE fetches
ServiceEvents ==
    IF NeedFetch(_ns)
    THEN <<Event("getSystemService", fetches + 1, "", -1, Empty)>>
    ELSE <<>>

(***************************************************************************)
(* Initial state: a freshly constructed instance, nothing shown.           *)
(***************************************************************************)
NoArgs == <<>>

Init ==
    /\ impl \in {"facade", "android"}
    /\ SDK_INT \in SdkVersions
    /\ pc = "idle"
    /\ calls = 0
    /\ args = NoArgs
    /\ kwargs = NoArgs
    /\ forwards = 0
    /\ message = Empty
    /\ ticker = Empty
    /\ title = Empty
    /\ icon = ""
    /\ noti = NoBuilder
    /\ trace = <<>>
    /\ outcome = "none"
    /\ error = ""
    /\ failed = ""
    /\ _ns = 0
    /\ fetches = 0
    /\ _channel = NoChannel
    /\ channels = {}
    /\ slots = [s \in SlotIds |-> 0]
    /\ replaced = {}
    /\ uiQueue = <<>>
    /\ toastShown = Empty
    /\ lastSuccess = 0

instance == <<_ns, fetches, _channel>>
os == <<channels, slots, replaced, toastShown>>
locals == <<message, ticker, title, icon, noti>>

(***************************************************************************)
(* Actions.                                                                *)
(***************************************************************************)
\* the except clause of _notify: the exception goes to the caller
Raise(step) ==
    /\ failed' = step
    /\ outcome' = OnException
    /\ error' = "Exception"
    /\ pc' = "done"

\* Notification.notify(...): bind the parameters and call self._notify
Notify ==
    /\ pc = "idle"
    /\ calls < MaxCalls
    /\ \E p \in {q \in SUBSET Fields : Cardinality(q) <= MaxPassed} :
       \E v \in [title : Pick("title", p), message : Pick("message", p),
                 app_name : Pick("app_name", p), app_icon : Pick("app_icon", p),
                 importance : Pick("importance", p),
                 timeout : Pick("timeout", p), ticker : Pick("ticker", p),
                 toast : Pick("toast", p), chronometer : Pick("chronometer", p),
                 only_alert_once : Pick("only_alert_once", p),
                 ongoing : Pick("ongoing", p)] :
          /\ args' = [f \in p |-> v[f]]
          /\ kwargs' = Forward([f \in p |-> v[f]])
    /\ calls' = calls + 1
    /\ forwards' = forwards + 1
    /\ pc' = "_notify"
    /\ UNCHANGED <<impl, SDK_INT, locals, trace, outcome, error, failed,
                   instance, os, uiQueue, lastSuccess>>

\* Notification._notify: no usable implementation
FacadeNotify ==
    /\ pc = "_notify"
    /\ impl = "facade"
    /\ outcome' = NotImplemented
    /\ error' = "NotImplementedError"
    /\ pc' = "done"
    /\ UNCHANGED <<impl, SDK_INT, calls, args, kwargs, forwards, locals, trace,
                   failed, instance, os, uiQueue, lastSuccess>>

\* AndroidNotification._notify, lines 199-205: encode the text fields
EncodeText ==
    /\ pc = "_notify"
    /\ impl = "android"
    /\ IF CanEncode(kwargs.message) /\ CanEncode(kwargs.ticker)
          /\ CanEncode(kwargs.title)
       THEN /\ message' = Encode(kwargs.message)
            /\ ticker' = Encode(kwargs.ticker)
            /\ title' = AndroidString(Encode(kwargs.title))
            /\ icon' = kwargs.app_icon
            /\ pc' = "decide"
            /\ UNCHANGED <<outcome, error, failed>>
       ELSE /\ Raise("encode")
            /\ UNCHANGED <<message, ticker, title, icon>>
    /\ UNCHANGED <<impl, SDK_INT, calls, args, kwargs, forwards, noti, trace,
                   instance, os, uiQueue, lastSuccess>>

\* the toast branch of _notify: _toast posts the toast to the UI thread
Toast ==
    /\ pc = "decide"
    /\ ToastRequested(kwargs)
    /\ uiQueue' = Append(uiQueue, message)
    /\ trace' = Append(trace, Event("toast", 0, "", -1, AndroidString(message)))
    /\ outcome' = "returned"
    /\ pc' = "done"
    /\ UNCHANGED <<impl, SDK_INT, calls, args, kwargs, forwards, locals, error,
                   failed, instance, os, lastSuccess>>

\* _build_notification on API 26+: _build_notification_channel
BuildNotificationChannel ==
    /\ pc = "decide"
    /\ ~ToastRequested(kwargs)
    /\ ChannelRequired(SDK_INT)
    /\ _ns' = ServiceHandle
    /\ fetches' = ServiceFetches
    /\ \E throws \in BOOLEAN :
          IF throws
          THEN /\ Raise("channel")
               /\ trace' = trace \o ServiceEvents
               /\ UNCHANGED <<_channel, channels>>
          ELSE /\ _channel' = [id |-> _channel_id, name |-> title,
                               importance |-> ChannelImportance(kwargs.importance)]
               /\ channels' = channels \cup {_channel_id}
               /\ trace' = trace \o ServiceEvents \o
                      <<Event("createNotificationChannel", ServiceHandle,
                              _channel_id, -1, Empty)>>
               /\ pc' = "builder"
               /\ UNCHANGED <<outcome, error, failed>>
    /\ UNCHANGED <<impl, SDK_INT, calls, args, kwargs, forwards, locals, slots,
                   replaced, toastShown, uiQueue, lastSuccess>>

\* _build_notification: construct the Notification.Builder
BuildNotification ==
    /\ \/ pc = "builder"
       \/ pc = "decide" /\ ~ToastRequested(kwargs) /\ ~ChannelRequired(SDK_INT)
    /\ \E throws \in BOOLEAN :
          IF throws
          THEN /\ Raise("builder")
               /\ UNCHANGED <<noti, trace>>
          ELSE /\ noti' = NotificationBuilder(
                              IF ChannelRequired(SDK_INT) THEN _channel_id ELSE "")
               /\ trace' = Append(trace, Event("NotificationBuilder", 0,
                              IF ChannelRequired(SDK_INT) THEN _channel_id ELSE "",
                              -1, Empty))
               /\ pc' = "assemble"
               /\ UNCHANGED <<outcome, error, failed>>
    /\ UNCHANGED <<impl, SDK_INT, calls, args, kwargs, forwards, message,
                   ticker, title, icon, instance, os, uiQueue, lastSuccess>>

\* _notify, lines 215-240: set the properties of the notification
Assemble ==
    /\ pc = "assemble"
    /\ \E throws \in BOOLEAN :
          IF throws
          THEN /\ Raise("assemble")
               /\ UNCHANGED noti
          ELSE /\ noti' = SetProperties(noti, kwargs, title, message, ticker)
               /\ pc' = "open"
               /\ UNCHANGED <<outcome, error, failed>>
    /\ UNCHANGED <<impl, SDK_INT, calls, args, kwargs, forwards, message,
                   ticker, title, icon, trace, instance, os, uiQueue,
                   lastSuccess>>

\* _open_notification: build the notification and hand it to the service
OpenNotification ==
    /\ pc = "open"
    /\ \E throws \in {"none", "build", "notify"} :
          IF throws = "build"
          THEN /\ Raise("dispatch")
               /\ UNCHANGED <<trace, _ns, fetches, slots, replaced>>
          ELSE /\ _ns' = ServiceHandle
               /\ fetches' = ServiceFetches
               /\ IF throws = "notify"
                  THEN /\ Raise("dispatch")
                       /\ trace' = Append(trace,
                              Event(IF SDK_INT >= 16 THEN "build"
                                    ELSE "getNotification", 0, "", -1, Empty))
                              \o ServiceEvents
                       /\ UNCHANGED <<slots, replaced>>
                  ELSE /\ slots' = [slots EXCEPT ![SlotId] = calls]
                       /\ replaced' = IF slots[SlotId] = 0 THEN replaced
                                      ELSE replaced \cup {slots[SlotId]}
                       /\ trace' = Append(trace,
                              Event(IF SDK_INT >= 16 THEN "build"
                                    ELSE "getNotification", 0, "", -1, Empty))
                              \o ServiceEvents
                              \o <<Event("notify", ServiceHandle, "", SlotId,
                                         noti.text)>>
                       /\ outcome' = "returned"
                       /\ pc' = "done"
                       /\ UNCHANGED <<error, failed>>
    /\ UNCHANGED <<impl, SDK_INT, calls, args, kwargs, forwards, locals,
                   _channel, channels, toastShown, uiQueue, lastSuccess>>

\* notify is over: the caller has the result, the call's frame is gone
Return ==
    /\ pc = "done"
    /\ lastSuccess' = IF outcome = "returned" /\ kwargs.toast # TRUE
                      THEN calls ELSE lastSuccess
    /\ pc' = "idle"
    /\ args' = NoArgs
    /\ kwargs' = NoArgs
    /\ forwards' = 0
    /\ message' = Empty
    /\ ticker' = Empty
    /\ title' = Empty
    /\ icon' = ""
    /\ noti' = NoBuilder
    /\ trace' = <<>>
    /\ outcome' = "none"
    /\ error' = ""
    /\ failed' = ""
    /\ UNCHANGED <<impl, SDK_INT, calls, instance, os, uiQueue>>

\* the UI thread runs a posted _toast: Toast.makeText(...).show()
RunOnUiThread ==
    /\ uiQueue # <<>>
    /\ toastShown' = AndroidString(Head(uiQueue))
    /\ uiQueue' = Tail(uiQueue)
    /\ UNCHANGED <<impl, SDK_INT, pc, calls, args, kwargs, forwards, locals,
                   trace, outcome, error, failed, instance, channels, slots,
                   replaced, lastSuccess>>

Next ==
    \/ Notify
    \/ FacadeNotify
    \/ EncodeText
    \/ Toast
    \/ BuildNotificationChannel
    \/ BuildNotification
    \/ Assemble
    \/ OpenNotification
    \/ Return
    \/ RunOnUiThread

Spec == Init /\ [][Next]_vars

TypeOK ==
    /\ pc \in {"idle", "_notify", "decide", "builder", "assemble", "open", "done"}
    /\ calls \in 0..MaxCalls
    /\ outcome \in {"none", "returned", "raised"}

(***************************************************************************)
(* Properties.                                                             *)
(***************************************************************************)
InCall == pc # "idle"

Ops(op) == {i \in DOMAIN trace : trace[i].op = op}

TextEncodable(kw) ==
    CanEncode(kw.message) /\ CanEncode(kw.ticker) /\ CanEncode(kw.title)

ChannelBeforeBuilder ==
    (InCall /\ impl = "android") =>
        /\ SDK_INT < 26 =>
              /\ channels = {}
              /\ _channel = NoChannel
              /\ Ops("createNotificationChannel") = {}
        /\ SDK_INT >= 26 =>
              \A i \in Ops("NotificationBuilder") \cup Ops("notify") :
                  \E j \in Ops("createNotificationChannel") :
                      /\ j < i
                      /\ trace[j].id = PackageName
                      /\ PackageName \in channels
        /\ noti.created => Ops("NotificationBuilder") # {}
        /\ (pc = "done" /\ outcome = "returned" /\ kwargs.toast = FALSE) =>
              Ops("notify") # {}

ChannelBeforeBuilderWitness ==
    /\ impl = "android"
    /\ SDK_INT = 26
    /\ pc = "done"
    /\ kwargs.toast = FALSE
    /\ outcome = "returned"
    /\ channels = {PackageName}
    /\ noti.channelId = PackageName

\* C3: the importance of the channel a call creates is determined by the
\* importance option alone: urgent gives HIGH, high DEFAULT, medium LOW,
\* low MIN, and unset or anything else DEFAULT.
ImportanceMapping ==
    (InCall /\ Ops("createNotificationChannel") # {}) =>
        _channel.importance =
            CASE kwargs.importance = "urgent" -> "IMPORTANCE_HIGH"
              [] kwargs.importance = "high" -> "IMPORTANCE_DEFAULT"
              [] kwargs.importance = "medium" -> "IMPORTANCE_LOW"
              [] kwargs.importance = "low" -> "IMPORTANCE_MIN"
              [] OTHER -> "IMPORTANCE_DEFAULT"

ImportanceMappingWitness ==
    /\ pc = "builder"
    /\ calls = 2
    /\ kwargs.importance = "low"
    /\ _channel.importance = "IMPORTANCE_MIN"
    /\ _channel.name = Plyer

\* C4: every dispatch goes to slot 0, so at most one notification of the
\* adapter is shown, and between calls it is the one of the most recent
\* non-toast call that returned.
SingleSlot ==
    /\ \A i \in Ops("notify") : trace[i].slot = 0
    /\ \A s \in SlotIds \ {0} : slots[s] = 0
    /\ Cardinality({s \in SlotIds : slots[s] # 0}) <= 1
    /\ pc \in {"idle", "done"} =>
          slots[0] = IF pc = "done" /\ outcome = "returned" /\ kwargs.toast = FALSE
                     THEN calls ELSE lastSuccess

SingleSlotWitness ==
    /\ pc = "idle"
    /\ lastSuccess = 2
    /\ slots[0] = 2
    /\ replaced = {1}

\* C5: the dispatched notification has the app icon as small icon, and as
\* large icon the app icon for None, none for "", the decoded file otherwise.
IconsResolved ==
    (InCall /\ Ops("notify") # {}) =>
        /\ noti.smallIcon = AppIcon
        /\ noti.largeIcon =
              CASE kwargs.app_icon = NoneIcon -> AppIcon
                [] kwargs.app_icon = "" -> NoIcon
                [] OTHER -> [kind |-> "file", path |-> kwargs.app_icon]

\* C6: notify hands _notify, exactly once, a bundle of exactly the eleven
\* fields, each with the value passed or else '' (text), 10 (timeout) or
\* False (flags).
ForwardsVerbatim ==
    InCall =>
        /\ forwards = 1
        /\ DOMAIN kwargs = Fields
        /\ \A f \in DOMAIN args : kwargs[f] = args[f]
        /\ \A f \in {"title", "message", "ticker"} \ DOMAIN args :
              kwargs[f] = <<>>
        /\ \A f \in {"app_name", "app_icon", "importance"} \ DOMAIN args :
              kwargs[f] = ""
        /\ \A f \in {"timeout"} \ DOMAIN args : kwargs[f] = 10
        /\ \A f \in {"toast", "chronometer", "only_alert_once", "ongoing"}
                    \ DOMAIN args : kwargs[f] = FALSE

ForwardsVerbatimWitness ==
    /\ pc = "done"
    /\ DOMAIN args = {"app_name", "timeout"}
    /\ kwargs.app_name = "app"
    /\ kwargs.timeout = 5
    /\ kwargs.app_icon = ""
    /\ forwards = 1

\* C7: on the bare facade every notify call ends in NotImplementedError and
\* nothing is shown, posted or created.
FacadeNotImplemented ==
    impl = "facade" =>
        /\ pc = "done" => outcome = "raised" /\ error = "NotImplementedError"
        /\ outcome # "returned"
        /\ trace = <<>>
        /\ uiQueue = <<>>
        /\ toastShown = Empty
        /\ channels = {}
        /\ \A s \in SlotIds : slots[s] = 0

FacadeNotImplementedWitness ==
    /\ impl = "facade"
    /\ pc = "done"
    /\ calls = 2
    /\ DOMAIN args = {"toast", "message"}
    /\ outcome = "raised"

\* C8: a call in which a step failed ends with an exception at the caller,
\* and only then; no native call was made twice and no notification of
\* that call is in any slot.
FailuresSurface ==
    (impl = "android" /\ pc = "done") =>
        /\ failed # "" <=> outcome = "raised"
        /\ ~TextEncodable(kwargs) => failed = "encode"
        /\ outcome \in {"returned", "raised"}
        /\ \A i, j \in DOMAIN trace : trace[i].op = trace[j].op => i = j
        /\ failed # "" =>
              /\ error = "Exception"
              /\ Ops("notify") = {}
              /\ \A s \in SlotIds : slots[s] # calls
              /\ calls \notin replaced

FailuresSurfaceWitness ==
    /\ impl = "android"
    /\ pc = "done"
    /\ calls = 2
    /\ failed = "dispatch"
    /\ outcome = "raised"
    /\ Ops("build") # {}
    /\ slots[0] = 1

\* C9: the dispatched notification has the content intent that opens the
\* app, and auto-cancel exactly when remove_when_clicked was asked for.
OpenBehaviorAttached ==
    (InCall /\ Ops("notify") # {}) =>
        /\ noti.contentIntent
        /\ noti.autoCancel <=> RemoveWhenClicked(kwargs)

\* C10: getSystemService is called at most once on an instance, and every
\* channel creation and dispatch goes through the handle it returned.
ServiceMemoized ==
    /\ fetches <= 1
    /\ _ns = fetches
    /\ Cardinality(Ops("getSystemService")) <= 1
    /\ \A i \in Ops("createNotificationChannel") \cup Ops("notify") :
          trace[i].ns = 1 /\ _ns = 1

ServiceMemoizedWitness ==
    /\ calls = 2
    /\ lastSuccess = 1
    /\ fetches = 1
    /\ Ops("notify") # {}
    /\ Ops("getSystemService") = {}

====
